---- MODULE Spec2Model ----
(***************************************************************************)
(* Model of the docs.rs documentation downloader (src/src/download.py,     *)
(* src/src/crate.py): download() resolves the latest version from the      *)
(* metadata page, then Crate.download_docs streams the archive into a      *)
(* temporary file, extracts it and cleans up.  One run of download() is    *)
(* one behaviour; the network, the archive and the file system are the     *)
(* environment and are chosen nondeterministically.                        *)
(***************************************************************************)
EXTENDS Integers, Sequences, FiniteSets, TLC

\* ------------------------------------------------------------------ bounds
MaxHeadingLen == 6     \* longest heading text of the metadata page
MaxChunks     == 2     \* most chunks iter_content yields in one run
MaxEntries    == 2     \* most entries of an archive

\* --------------------------------------------------------------- constants
ChunkSize  == 8192     \* iter_content(chunk_size=8192)
BlockSize  == 4096     \* st_blksize: the buffer of NamedTemporaryFile's file
DefaultBufferSize == 8192   \* io.DEFAULT_BUFFER_SIZE, when st_blksize is unusable

\* Python's None, kept a tuple so that it compares with version strings.
None == <<"None">>

\* A string is a tuple of characters; "" is << >>.
Digits == {"0", "1", "2", "3", "4", "5", "6", "7", "8", "9"}

\* Characters of the heading texts tried: a digit, the dot, another character.
HeadingAlphabet == {"1", ".", "x"}

Name == "serde"

\* The versions a caller passes to download(): none, the empty string, the
\* version that may also be the latest one, and an older one.
RequestedVersions == {None, << >>, <<"1", ".", "1", ".", "1">>, <<"0", ".", "9", ".", "0">>}

\* Status codes of the final response (requests follows redirects that carry
\* a Location; 304 stands for a 3xx/1xx answer handed to the caller as is).
Statuses == {200, 304, 404, 500}

\* Chunk lengths iter_content yields: at most ChunkSize bytes each.
ChunkLens == {100, BlockSize, ChunkSize}

BufferSizes == {BlockSize, DefaultBufferSize}

\* Content-Length header of the download response ("absent": no header).
ContentLengths == {"absent", "0", "8192", "abc"}

\* State of output_path/name and output_path/name/version before the run.
DirStates ==
    { [parent |-> FALSE, dest |-> FALSE, files |-> {}],
      [parent |-> TRUE,  dest |-> FALSE, files |-> {}],
      [parent |-> TRUE,  dest |-> TRUE,  files |-> {}],
      [parent |-> TRUE,  dest |-> TRUE,  files |-> {"old"}] }

Entries == {"a", "b"}

\* What zip_ref.extract raises on an entry it cannot extract: BadZipFile for
\* a bad header or checksum, another exception (zlib.error, EOFError,
\* OSError) when the data does not decompress or cannot be written.
EntryErrors == {"BadZipFile", "zlib_error"}

SeqsUpTo(S, n) == UNION {[1..k -> S] : k \in 0..n}

VARIABLES
    pc,             \* position in download()
    version,        \* download()'s version argument
    crate_version,  \* Crate.version
    latest_version, \* Crate.latest_version
    output_path,    \* Crate.output_path
    result,         \* how download() ended: "none", "returned" or the error raised
    exc,            \* exception pending in download_docs's try block, or NoError
    stage,          \* last step completed: "init", "resolved", "fetched", "extracted"
    gets,           \* the GET requests issued so far, in order
    meta_status,    \* status code of fetch_metadata's response (0: none held)
    docs_called,    \* download_docs has been called
    dl_status,      \* status code of the download response (0: none yet)
    total_size,     \* total of the download progress task (-1: no task)
    dl_completed,   \* bytes the download progress task has advanced
    nchunks,        \* chunks written so far
    bufsize,        \* buffer size of the temporary file object
    tmp,            \* the temporary file: [open, written, onDisk]
    openedAt,       \* [written, onDisk] of the temporary file when ZipFile opened it
    tmpfiles,       \* files in tempfile.gettempdir()
    parentExists,   \* output_path/name exists
    destExists,     \* output_path/name/version exists
    destFiles,      \* entries of output_path/name/version
    createdParent,  \* this run created output_path/name
    createdDest,    \* this run created output_path/name/version
    namelist,       \* zip_ref.namelist()
    ex_total,       \* total of the extraction progress task (-1: no task)
    ex_completed,   \* entries the extraction progress task has advanced
    idx,            \* entries of namelist the extraction loop has gone through
    log             \* records logged so far

vars == <<pc, version, crate_version, latest_version, output_path, result, exc,
          stage, gets, meta_status, docs_called, idx, dl_status, total_size,
          dl_completed, nchunks, bufsize,
          tmp, openedAt, tmpfiles, parentExists, destExists, destFiles,
          createdParent, createdDest, namelist, ex_total, ex_completed, log>>

\* ----------------------------------------------------------- pure helpers

\* `if version:` -- None and "" are falsy.
Truthy(v) == v # None /\ v # << >>

\* url_templates (crate.py 33-37)
LatestUrl(name) == <<"crate", name, <<"latest">>>>
DownloadUrl(name, v) == <<"crate", name, v, "download">>

\* Path(output_path) / self.name / self.version
DestPath(name, v) == <<name, v>>

\* tempfile.NamedTemporaryFile(suffix=".zip"): tmp + random characters + .zip
NamedTempPath == <<"tmp", "random8", ".zip">>

\* Path(tempfile.gettempdir()) / f"{self.name}-{self.version}.zip"
CleanupZipPath(name, v) == <<name, "-", v, ".zip">>

\* Length of the maximal run of digits of s starting at position i.
RECURSIVE DigitRun(_, _)
DigitRun(s, i) ==
    IF i <= Len(s) /\ s[i] \in Digits THEN 1 + DigitRun(s, i + 1) ELSE 0

\* End position of a match of \d+\.\d+\.\d+ starting at i, or 0.  The
\* quantifiers are greedy; a shorter first or second run is followed by a
\* digit, never by the dot, so backtracking finds nothing more.
MatchEnd(s, i) ==
    LET a == DigitRun(s, i)
        j == i + a
        b == IF a > 0 /\ j <= Len(s) /\ s[j] = "." THEN DigitRun(s, j + 1) ELSE 0
        k == j + 1 + b
        c == IF b > 0 /\ k <= Len(s) /\ s[k] = "." THEN DigitRun(s, k + 1) ELSE 0
    IN IF c > 0 THEN k + c ELSE 0

\* re.search(r"\d+\.\d+\.\d+", text): the leftmost match, or None.
ReSearch(s) ==
    LET starts == {i \in 1..Len(s) : MatchEnd(s, i) > 0}
    IN IF starts = {} THEN None
       ELSE LET i == CHOOSE x \in starts : \A y \in starts : x <= y
            IN SubSeq(s, i, MatchEnd(s, i))

\* response.raise_for_status(): raises HTTPError for 4xx and 5xx.
RaisesForStatus(s) == 400 <= s /\ s < 600

\* int(response.headers.get("content-length", 0)); -1 stands for ValueError.
IntOf(h) ==
    CASE h = "absent" -> 0
      [] h = "0"      -> 0
      [] h = "8192"   -> 8192
      [] OTHER        -> -1

\* BufferedWriter.write of n bytes behind tmp_file.write(chunk): data that
\* fits the free buffer space is only buffered; otherwise the buffer is
\* flushed, data longer than the buffer is written through and a remainder
\* of at most the buffer size is buffered again.
BufferedWrite(t, n, size) ==
    LET pending == t.written - t.onDisk
    IN IF n <= size - pending
       THEN [t EXCEPT !.written = @ + n]
       ELSE IF n > size
            THEN [t EXCEPT !.written = @ + n, !.onDisk = t.written + n]
            ELSE [t EXCEPT !.written = @ + n, !.onDisk = t.written]

\* Leaving `with tempfile.NamedTemporaryFile(...)`: the file is flushed and
\* closed; delete=False keeps it on disk.
CloseTemp(t) == [t EXCEPT !.open = FALSE, !.onDisk = t.written]

\* zipfile.ZipFile(zip_path, "r") reads the bytes on disk: the end-of-central-
\* directory record closes the archive, so a file whose tail is still in
\* the writer's buffer does not open.
OpensAsZip(bodyIsZip, t) == bodyIsZip /\ t.written > 0 /\ t.onDisk = t.written

\* exc when no exception is pending.
NoError == "NoError"

\* An except clause without the 404 branch.
HandleHTTPErrorPlain(s) == "HTTPError"

\* except requests.HTTPError in download_docs (crate.py 129-138)
HandleHTTPError(s) ==
    IF s = 404 THEN "ValueError_NotFound" ELSE "HTTPError"

\* Lines 100-104: the exception the response raises, or NoError.
ResponseError(s, h) ==
    IF RaisesForStatus(s) THEN HandleHTTPError(s)
    ELSE IF IntOf(h) < 0 THEN "ValueError_ContentLength"
    ELSE IF s = 404 THEN "ValueError_NotFound"
    ELSE NoError

\* An except clause that logs and returns, its `raise` forgotten.
Swallow(e) == NoError

\* The bare `raise` that ends every except clause.
Reraise(e) == e

\* A cleanup that never removes the directory.
DirKept(exists, files, rmdirOk) == [exists |-> exists, files |-> files]

\* A cleanup that removes the directory with all it holds (shutil.rmtree).
DirRemovedWhole(exists, files, rmdirOk) == [exists |-> FALSE, files |-> {}]

\* crate.py 182-189: an empty destination directory is removed with rmdir,
\* which may fail with OSError; a directory that holds anything is kept.
DirAfterCleanup(exists, files, rmdirOk) ==
    IF files = {} /\ rmdirOk
    THEN [exists |-> FALSE, files |-> {}]
    ELSE [exists |-> exists, files |-> files]

\* A failed metadata request that is tried again.
RetryMetadata == "start"

\* crate.py 62-72: fetch_metadata re-raises, nothing in download() catches
\* the exception: the run is over.
MetadataFailurePc == "done"

\* A path built with str(version): None becomes the directory "None".
JoinNeverRaises(v) == FALSE

\* crate.py 91: Path(output_path) / self.name / self.version raises
\* TypeError when the version is None.
JoinRaises(v) == v = None

\* A progress task that is never advanced.
NoAdvance(n) == n

\* crate.py 171: progress.update(extract_task, advance=1)
Advance(n) == n + 1

\* A cleanup whose OSError is not caught.
CleanupFailureRaised(e, unlinkFails, rmdirFails) ==
    IF unlinkFails \/ rmdirFails THEN "OSError"
    ELSE IF e = NoError THEN "returned" ELSE e

\* crate.py 145-146, 176-189: both deletions catch OSError and log a
\* warning, so the finally clause ends normally: the pending exception
\* propagates, or download() returns the crate (download.py 26).
CleanupOutcome(e, unlinkFails, rmdirFails) ==
    IF e = NoError THEN "returned" ELSE e

\* download.py 18: the test that guards the mismatch warning.
VersionMismatch(cv, v) == cv # v

\* A from_version that adopts the latest version, as from_latest_version does.
FromVersionAdoptsLatest(v, latest) == latest

\* from_version keeps the constructor's version; from_latest_version adopts
\* the latest one.
FromVersion(v, latest) == v
FromLatestVersion(latest) == latest

\* ------------------------------------------------------------------- Init
Init ==
    /\ pc = "start"
    /\ version \in RequestedVersions
    /\ crate_version = None
    /\ latest_version = None
    /\ output_path = None
    /\ result = "none"
    /\ exc = NoError
    /\ stage = "init"
    /\ gets = << >>
    /\ meta_status = 0
    /\ docs_called = FALSE
    /\ idx = 0
    /\ dl_status = 0
    /\ total_size = -1
    /\ dl_completed = 0
    /\ nchunks = 0
    /\ bufsize \in BufferSizes
    /\ tmp = [open |-> FALSE, written |-> 0, onDisk |-> 0]
    /\ openedAt = [written |-> -1, onDisk |-> -1]
    /\ tmpfiles = {}
    /\ \E d \in DirStates :
          /\ parentExists = d.parent
          /\ destExists = d.dest
          /\ destFiles = d.files
    /\ createdParent = FALSE
    /\ createdDest = FALSE
    /\ namelist = << >>
    /\ ex_total = -1
    /\ ex_completed = 0
    /\ log = {}

\* ---------------------------------------------------------------- actions

\* download.py 15-23, Crate.__init__ and crate.py 50-53: the crate is built
\* and fetch_metadata issues its one GET of the metadata page.
FetchMetadata ==
    /\ pc = "start"
    /\ gets' = Append(gets, LatestUrl(Name))
    /\ \/ \* the transport raises (requests.RequestException)
          /\ pc' = MetadataFailurePc
          /\ result' = Reraise("RequestException")
          /\ log' = log \cup {"error_metadata"}
          /\ UNCHANGED meta_status
       \/ \E s \in Statuses :
          /\ meta_status' = s
          /\ pc' = "meta"
          /\ UNCHANGED <<result, log>>
    /\ UNCHANGED <<version, crate_version, latest_version, output_path, exc, stage,
                   docs_called, idx, dl_status, total_size, dl_completed,
                   nchunks, bufsize, tmp, openedAt, tmpfiles, parentExists,
                   destExists, destFiles, createdParent, createdDest, namelist,
                   ex_total, ex_completed>>

\* crate.py 54-72 with from_version / from_latest_version (74-87) and
\* download.py 18-23: raise_for_status, the heading is parsed, the version
\* is adopted; the response is local to fetch_metadata.
ParseMetadata ==
    /\ pc = "meta"
    /\ \/ /\ RaisesForStatus(meta_status)
          /\ pc' = MetadataFailurePc
          /\ result' = Reraise("HTTPError")
          /\ log' = log \cup {"error_metadata"}
          /\ UNCHANGED <<crate_version, latest_version, stage, meta_status>>
       \/ \E h \in {None} \cup SeqsUpTo(HeadingAlphabet, MaxHeadingLen) :
          /\ ~RaisesForStatus(meta_status)
          /\ latest_version' = IF h = None THEN None ELSE ReSearch(h)
          /\ crate_version' = IF Truthy(version)
                                THEN FromVersion(version, latest_version')
                                ELSE FromLatestVersion(latest_version')
          /\ log' = IF Truthy(version) /\ VersionMismatch(crate_version', version)
                      THEN log \cup {"warning_mismatch"} ELSE log
          /\ stage' = "resolved"
          /\ meta_status' = 0
          /\ pc' = "resolved"
          /\ UNCHANGED result
    /\ UNCHANGED <<version, output_path, exc, gets, docs_called, idx, dl_status,
                   total_size, dl_completed, nchunks, bufsize, tmp, openedAt,
                   tmpfiles, parentExists, destExists, destFiles, createdParent,
                   createdDest, namelist, ex_total, ex_completed>>

\* crate.py 89-96: the destination path, mkdir(parents, exist_ok), the URL.
\* Path / None raises TypeError before anything is created.  A file named
\* like the cleanup's zip path may lie in the temporary directory already.
DownloadDocsEnter ==
    /\ pc = "resolved"
    /\ docs_called' = TRUE
    /\ IF JoinRaises(crate_version)
       THEN /\ pc' = "done"
            /\ result' = "TypeError"
            /\ UNCHANGED <<output_path, parentExists, destExists, createdParent,
                           createdDest, tmpfiles>>
       ELSE /\ pc' = "get"
            /\ output_path' = DestPath(Name, crate_version)
            /\ parentExists' = TRUE
            /\ destExists' = TRUE
            /\ createdParent' = ~parentExists
            /\ createdDest' = ~destExists
            /\ tmpfiles' \in {{}, {CleanupZipPath(Name, crate_version)}}
            /\ UNCHANGED result
    /\ UNCHANGED <<meta_status, idx, version, crate_version, latest_version, exc, stage, gets,
                   dl_status, total_size, dl_completed, nchunks, bufsize, tmp,
                   openedAt, destFiles, namelist, ex_total, ex_completed, log>>

\* crate.py 98-104: the streaming GET, raise_for_status, Content-Length.
DownloadGet ==
    /\ pc = "get"
    /\ gets' = Append(gets, DownloadUrl(Name, crate_version))
    /\ \/ \* the transport raises: except Exception logs and re-raises
          /\ exc' = Reraise("RequestException")
          /\ log' = log \cup {"info_downloading", "error_download"}
          /\ pc' = "finally"
          /\ UNCHANGED <<dl_status, total_size>>
       \/ \E s \in Statuses, h \in ContentLengths :
          /\ dl_status' = s
          /\ IF ResponseError(s, h) # NoError
             THEN /\ exc' = Reraise(ResponseError(s, h))
                  /\ log' = log \cup {"info_downloading", "error_download"}
                  /\ pc' = "finally"
                  /\ UNCHANGED total_size
             ELSE /\ total_size' = IntOf(h)
                  /\ log' = log \cup {"info_downloading"}
                  /\ pc' = "tmp"
                  /\ UNCHANGED exc
    /\ UNCHANGED <<meta_status, docs_called, idx,
                   version, crate_version, latest_version, output_path, result,
                   stage, dl_completed, nchunks, bufsize, tmp, openedAt, tmpfiles,
                   parentExists, destExists, destFiles, createdParent, createdDest,
                   namelist, ex_total, ex_completed>>

\* crate.py 106-120: the temporary file is created and the progress task added.
CreateTemp ==
    /\ pc = "tmp"
    /\ tmpfiles' = tmpfiles \cup {NamedTempPath}
    /\ tmp' = [open |-> TRUE, written |-> 0, onDisk |-> 0]
    /\ pc' = "stream"
    /\ UNCHANGED <<meta_status, docs_called, idx,
                   version, crate_version, latest_version, output_path, result, exc,
                   stage, gets, dl_status, total_size, dl_completed, nchunks, bufsize,
                   openedAt, parentExists, destExists, destFiles, createdParent,
                   createdDest, namelist, ex_total, ex_completed, log>>

\* crate.py 122-124: one chunk is written and the progress advanced.
WriteChunk ==
    /\ pc = "stream"
    /\ nchunks < MaxChunks
    /\ \E n \in ChunkLens :
          /\ tmp' = BufferedWrite(tmp, n, bufsize)
          /\ dl_completed' = dl_completed + n
    /\ nchunks' = nchunks + 1
    /\ UNCHANGED <<meta_status, docs_called, idx,
                   pc, version, crate_version, latest_version, output_path, result,
                   exc, stage, gets, dl_status, total_size, bufsize, openedAt,
                   tmpfiles, parentExists, destExists, destFiles, createdParent,
                   createdDest, namelist, ex_total, ex_completed, log>>

\* crate.py 122: iter_content raises while streaming; both with blocks are
\* left, which closes the temporary file.
StreamFail ==
    /\ pc = "stream"
    /\ exc' = Reraise("RequestException")
    /\ tmp' = CloseTemp(tmp)
    /\ log' = log \cup {"error_download"}
    /\ pc' = "finally"
    /\ UNCHANGED <<meta_status, docs_called, idx,
                   version, crate_version, latest_version, output_path, result,
                   stage, gets, dl_status, total_size, dl_completed, nchunks, bufsize,
                   openedAt, tmpfiles, parentExists, destExists, destFiles,
                   createdParent, createdDest, namelist, ex_total, ex_completed>>

\* crate.py 122-126: the response body is exhausted; _extract_zip is called
\* inside the NamedTemporaryFile block.
StreamEnd ==
    /\ pc = "stream"
    /\ stage' = "fetched"
    /\ pc' = "open"
    /\ UNCHANGED <<meta_status, docs_called, idx,
                   version, crate_version, latest_version, output_path, result, exc,
                   gets, dl_status, total_size, dl_completed, nchunks, bufsize, tmp,
                   openedAt, tmpfiles, parentExists, destExists, destFiles,
                   createdParent, createdDest, namelist, ex_total, ex_completed, log>>

\* crate.py 150-167: ZipFile opens the temporary file by name.
OpenZip ==
    /\ pc = "open"
    /\ openedAt' = [written |-> tmp.written, onDisk |-> tmp.onDisk]
    /\ \E bodyIsZip \in BOOLEAN :
          IF OpensAsZip(bodyIsZip, tmp)
          THEN /\ namelist' \in SeqsUpTo(Entries, MaxEntries)
               /\ ex_total' = Len(namelist')
               /\ pc' = "extract"
               /\ UNCHANGED <<exc, tmp, log>>
          ELSE /\ exc' = Reraise("BadZipFile")
               /\ tmp' = CloseTemp(tmp)
               /\ log' = log \cup {"error_extract"}
               /\ pc' = "finally"
               /\ UNCHANGED <<namelist, ex_total>>
    /\ UNCHANGED <<meta_status, docs_called, idx,
                   version, crate_version, latest_version, output_path, result,
                   stage, gets, dl_status, total_size, dl_completed, nchunks, bufsize,
                   tmpfiles, parentExists, destExists, destFiles, createdParent,
                   createdDest, ex_completed>>

\* crate.py 169-171: one entry is extracted and the progress advanced, or
\* zip_ref.extract raises (its file may have been written before the error).
ExtractEntry ==
    /\ pc = "extract"
    /\ idx < Len(namelist)
    /\ LET file == namelist[idx + 1]
       IN \/ /\ destFiles' = destFiles \cup {file}
             /\ ex_completed' = Advance(ex_completed)
             /\ idx' = idx + 1
             /\ UNCHANGED <<pc, exc, tmp, log>>
          \/ \E e \in EntryErrors :
             /\ destFiles' \in {destFiles, destFiles \cup {file}}
             /\ exc' = Reraise(e)
             /\ tmp' = CloseTemp(tmp)
             /\ log' = log \cup {IF e = "BadZipFile" THEN "error_extract"
                                                     ELSE "error_download"}
             /\ pc' = "finally"
             /\ UNCHANGED <<ex_completed, idx>>
    /\ UNCHANGED <<meta_status, docs_called,
                   version, crate_version, latest_version, output_path, result,
                   stage, gets, dl_status, total_size, dl_completed, nchunks, bufsize,
                   openedAt, tmpfiles, parentExists, destExists, createdParent,
                   createdDest, namelist, ex_total>>

\* crate.py 126-128: every entry is extracted; the with blocks are left and
\* the success is logged.
ExtractDone ==
    /\ pc = "extract"
    /\ idx = Len(namelist)
    /\ tmp' = CloseTemp(tmp)
    /\ stage' = "extracted"
    /\ log' = log \cup {"info_extracted"}
    /\ pc' = "finally"
    /\ UNCHANGED <<meta_status, docs_called, idx,
                   version, crate_version, latest_version, output_path, result, exc,
                   gets, dl_status, total_size, dl_completed, nchunks, bufsize,
                   openedAt, tmpfiles, parentExists, destExists, destFiles,
                   createdParent, createdDest, namelist, ex_total, ex_completed>>

\* crate.py 145-146 and 173-189, then download.py 26: _cleanup_download in
\* the finally clause, after which the pending exception propagates or
\* download() returns the crate.
Cleanup ==
    /\ pc = "finally"
    /\ LET zip_path == CleanupZipPath(Name, crate_version)
       IN \E unlinkOk \in BOOLEAN, rmdirOk \in BOOLEAN :
          LET unlinkFails == zip_path \in tmpfiles /\ ~unlinkOk
              rmdirTried  == destFiles = {}
              rmdirFails  == rmdirTried /\ ~rmdirOk
              dir         == DirAfterCleanup(destExists, destFiles, rmdirOk)
          IN /\ tmpfiles' = IF unlinkOk THEN tmpfiles \ {zip_path} ELSE tmpfiles
             /\ destExists' = dir.exists
             /\ destFiles' = dir.files
             /\ log' = log \cup (IF unlinkFails THEN {"warning_unlink"} ELSE {})
                           \cup (IF rmdirTried /\ ~rmdirOk THEN {"warning_rmdir"} ELSE {})
                           \cup (IF rmdirTried /\ rmdirOk THEN {"info_removed"} ELSE {})
             /\ result' = CleanupOutcome(exc, unlinkFails, rmdirFails)
    /\ pc' = "done"
    /\ UNCHANGED <<meta_status, docs_called, idx,
                   version, crate_version, latest_version, output_path, exc, stage,
                   gets, dl_status, total_size, dl_completed, nchunks, bufsize, tmp,
                   openedAt, parentExists, createdParent, createdDest,
                   namelist, ex_total, ex_completed>>

Next ==
    \/ FetchMetadata
    \/ ParseMetadata
    \/ DownloadDocsEnter
    \/ DownloadGet
    \/ CreateTemp
    \/ WriteChunk
    \/ StreamFail
    \/ StreamEnd
    \/ OpenZip
    \/ ExtractEntry
    \/ ExtractDone
    \/ Cleanup

Spec == Init /\ [][Next]_vars

\* ----------------------------------------------------------------- claims

Done == pc = "done"

ErrorKinds == {"RequestException", "HTTPError", "ValueError_NotFound",
               "ValueError_ContentLength", "BadZipFile", "zlib_error", "TypeError"}

\* The temporary archive has been created by NamedTemporaryFile.
TempCreated == total_size >= 0 /\ pc # "tmp"

\* download_docs got past mkdir: the run has a destination directory.
ReachedMkdir == output_path # None

\* C1: whenever download_docs has exited after creating the temporary
\* archive, that file no longer exists on disk.
C1_TempFileGone == (Done /\ TempCreated) => NamedTempPath \notin tmpfiles

\* C2 as claimed: after a run that reached download_docs, the destination
\* directory is non-empty or does not exist, never an empty directory.
C2_NeverEmptyDir == (Done /\ ReachedMkdir) => ~(destExists /\ destFiles = {})

\* C2 amended: after a run that reached download_docs, the destination
\* directory is non-empty or does not exist, unless rmdir of the empty
\* directory failed with OSError, which the run logged as a warning.
C2_EmptyDirOnlyAfterRmdirFailure ==
    (Done /\ ReachedMkdir) =>
        /\ (destExists /\ destFiles = {}) => "warning_rmdir" \in log
        /\ "warning_rmdir" \notin log => (~destExists \/ destFiles # {})

\* C2's case: the run created the directory, nothing was extracted and the
\* cleanup removed it.
C2_Witness ==
    Done /\ ReachedMkdir /\ createdDest /\ ~destExists /\ "info_removed" \in log

C4_Expected == IF version # None /\ version # << >> THEN version ELSE latest_version

\* C4: the destination path and the download URL are built from the
\* requested version when one was supplied, else from the resolved latest.
C4_RequestedVersionIsUsed ==
    ReachedMkdir =>
        /\ output_path = DestPath(Name, C4_Expected)
        /\ Len(gets) >= 2 => gets[2] = DownloadUrl(Name, C4_Expected)

\* C4's case: a version was requested, latest resolved to another one and
\* the download GET has been issued.
C4_Witness ==
    /\ Len(gets) = 2
    /\ version # None /\ version # << >>
    /\ latest_version # None /\ latest_version # version

\* C5: when the page gives no version, resolution does not complete with an
\* unset version (stated for a run without a requested version).
C5_NoVersionIsNotFound ==
    (stage # "init" /\ (version = None \/ version = << >>)) => crate_version # None

\* C6: download() returns the crate exactly when resolution, fetch and
\* extraction all completed, then with version and output_path set; every
\* other run ends with an error.
C6_ReturnsIffAllSucceeded ==
    Done =>
        /\ result = "returned" <=> stage = "extracted"
        /\ result = "returned" => (crate_version # None /\ output_path # None)
        /\ result # "returned" => result \in ErrorKinds

\* C6's case: a run that returned the crate.
C6_Witness == Done /\ result = "returned" /\ destFiles # {}

\* C7: after a 404 download response (and no failure inside the cleanup)
\* the run ends not-found and nothing it created remains: no temporary
\* archive, no destination directory, no parent directory.
C7_NotFoundLeavesNothing ==
    (Done /\ dl_status = 404 /\ "warning_rmdir" \notin log) =>
        /\ result = "ValueError_NotFound"
        /\ NamedTempPath \notin tmpfiles
        /\ ~(createdDest /\ destExists)
        /\ ~(createdParent /\ parentExists)

\* The fetch completed and the extraction did not.
ExtractionFailed == Done /\ stage = "fetched"

\* C8 as claimed: when the archive does not open or an entry fails, the run
\* ends with BadZipFile, every entry extracted before the failure is on
\* disk and a non-empty destination directory is still there.
C8_FailsWithBadZipFile ==
    ExtractionFailed =>
        /\ result = "BadZipFile"
        /\ \A i \in 1..ex_completed : namelist[i] \in destFiles
        /\ destFiles # {} => destExists

\* C8 amended: the run ends with the exception the extraction raised,
\* unchanged: BadZipFile when the file does not open as an archive, and for
\* a failing entry BadZipFile or the other exception zip_ref.extract
\* raised; every entry extracted before the failure is on disk and a
\* non-empty destination directory is still there.
C8_PartialExtractionKept ==
    ExtractionFailed =>
        /\ result = exc
        /\ result \in EntryErrors
        /\ ex_total = -1 => result = "BadZipFile"
        /\ \A i \in 1..ex_completed : namelist[i] \in destFiles
        /\ destFiles # {} => destExists

\* C8's case: an entry failed after another had been extracted.
C8_Witness == ExtractionFailed /\ ex_completed >= 1 /\ ex_completed < Len(namelist)

\* C9: with an explicit version and a different latest version, the
\* mismatch warning has been logged once resolution is over.
C9_MismatchWarned ==
    (/\ stage # "init"
     /\ version # None /\ version # << >>
     /\ latest_version # None /\ latest_version # version)
        => "warning_mismatch" \in log

\* C10: the download GET follows a successful metadata GET, and ZipFile
\* opens the temporary archive only when every chunk written is on disk.
C10_StepsOrdered ==
    /\ Len(gets) >= 2 => stage # "init"
    /\ openedAt.written >= 0 =>
          /\ stage \in {"fetched", "extracted"}
          /\ openedAt.onDisk = openedAt.written

\* C11: download_docs is called only on a crate whose version is set.
C11_FetchNeedsVersion == docs_called => crate_version # None

\* C12: no step is retried: one metadata GET at most, then one download GET
\* at most, and none after the metadata request failed.
C12_NoRetry ==
    /\ Len(gets) <= 2
    /\ Len(gets) >= 1 => gets[1] = LatestUrl(Name)
    /\ Len(gets) = 2 => (stage # "init" /\ gets[2] = DownloadUrl(Name, crate_version))
    /\ (stage = "init" /\ result # "none") => (Done /\ Len(gets) = 1)
    /\ exc # NoError => Len(gets) = 2

\* C12's case: the download GET failed and the run has ended after it.
C12_Witness == Done /\ Len(gets) = 2 /\ result \in {"HTTPError", "RequestException"}

\* C13: a deletion that fails inside _cleanup_download leaves the outcome
\* what it was before the cleanup, and is logged as a warning.
C13_CleanupKeepsOutcome ==
    Done /\ docs_called /\ crate_version # None =>
        /\ result = (IF exc = NoError THEN "returned" ELSE exc)
        /\ result = "returned" <=> stage = "extracted"
        /\ (destExists /\ destFiles = {}) => "warning_rmdir" \in log
        /\ CleanupZipPath(Name, crate_version) \in tmpfiles => "warning_unlink" \in log

\* C13's case: both deletions failed in a run that returned the crate.
C13_Witness ==
    /\ Done /\ result = "returned"
    /\ "warning_unlink" \in log /\ "warning_rmdir" \in log

\* The errors a failed request raises.
NetworkErrors == {"RequestException", "HTTPError"}

C15_CounterCountsEntries ==
    [][/\ (ex_completed' = ex_completed \/ ex_completed' = ex_completed + 1)
       /\ idx' # idx => ex_completed' = ex_completed + 1
       /\ stage' = "extracted" =>
             (ex_completed' = Len(namelist') /\ ex_total' = Len(namelist'))]_vars

\* C15's case: an archive of two entries has been extracted whole.
C15_Witness == stage = "extracted" /\ ex_completed = 2 /\ Len(namelist) = 2

\* C16: the Content-Length header does not decide the outcome: no run ends
\* with the error of parsing it when the same response would have passed
\* with another header.
C16_OutcomeIgnoresContentLength ==
    (Done /\ result = "ValueError_ContentLength") =>
        \A h \in ContentLengths : ResponseError(dl_status, h) # NoError

\* C17: output_path is None until the archive has been extracted without
\* error.
C17_OutputPathOnlyAfterExtraction == output_path # None => stage = "extracted"

\* C18 as claimed: when download() returns the crate, the directory its
\* output_path names exists, also for an archive without entries.
C18_ReturnedPathExists == (Done /\ result = "returned") => destExists

\* C18 amended: when download() returns the crate, the directory its
\* output_path names exists if it holds anything; a directory left empty
\* (an archive without entries) has been removed by the cleanup, unless
\* that rmdir failed.
C18_ReturnedPathExistsIfNonEmpty ==
    (Done /\ result = "returned") =>
        /\ output_path = DestPath(Name, crate_version)
        /\ destFiles # {} => destExists
        /\ destFiles = {} => (destExists <=> "warning_rmdir" \in log)

\* C18's case: the crate is returned after an archive with entries.
C18_Witness == Done /\ result = "returned" /\ Len(namelist) >= 1 /\ destExists

\* No version was requested and the page gave none.
NoVersionAtAll ==
    stage # "init" /\ (version = None \/ version = << >>) /\ latest_version = None

\* C19: without a requested and without a resolved version, download()
\* raises before any download GET, directory or temporary file, and
\* returns no crate.
C19_NoVersionRaisesEarly ==
    (NoVersionAtAll /\ pc # "resolved") =>
        /\ Done
        /\ result = "TypeError"
        /\ Len(gets) = 1
        /\ output_path = None
        /\ ~createdParent /\ ~createdDest
        /\ tmpfiles = {}

\* C19's case: such a run has ended.
C19_Witness == NoVersionAtAll /\ Done /\ docs_called

====
